---- MODULE Spec2Model ----
(***************************************************************************)
(* Model of main.py: the data loaders load_env_data / load_growth_data     *)
(* (directory scan, NFC normalisation of names, substring match on school  *)
(* names, per-file error handling, st.cache_data memoisation) and the      *)
(* statistics that main derives from the loaded tables (per-school means,  *)
(* best school by mean weight, ranked summary table).                      *)
(*                                                                         *)
(* Names are sequences of Unicode code points.  Numbers produced by        *)
(* pandas' mean() are exact rationals n/d or NaN.                          *)
(***************************************************************************)
EXTENDS Integers, Sequences, FiniteSets, TLC

VARIABLES
    dirExists,      \* Path("data").exists()
    cfgForm,        \* normalisation form in which the keys of SCHOOL_CONFIG are stored
    csvFiles,       \* entries of data/: file name -> whether pd.read_csv succeeds on it
    workbook,       \* the first *.xlsx of data/: [present, opens, sheets]
    pc,             \* position of the script run
    env_data,       \* main's env_data:    school -> table
    growth_data,    \* main's growth_data: school -> table
    warnings,       \* st.warning messages shown in this run
    errors,         \* st.error messages shown in this run
    env_cache,      \* st.cache_data entry of load_env_data
    growth_cache,   \* st.cache_data entry of load_growth_data
    enumOrder,      \* order in which iterdir() yielded the entries when they were read
    assigned,       \* every (entry, school) assignment the loaders performed
    raised,         \* an exception escaped a loader
    prev,           \* what the loaders returned in the previous script run
    ec_values, ph_values, temp_values, humidity_values, weight_values,
    optimal_idx,    \* index (1-based) of the "최대 생중량 학교"
    summary_df      \* the ranked summary table, in rank order

fsVars    == <<dirExists, cfgForm, csvFiles, workbook>>
loadVars  == <<env_data, growth_data, warnings, errors, env_cache, growth_cache,
               enumOrder, assigned, raised, prev>>
statVars  == <<ec_values, ph_values, temp_values, humidity_values, weight_values,
               optimal_idx, summary_df>>
vars      == <<fsVars, loadVars, statVars, pc>>

-----------------------------------------------------------------------------
(* Bounds *)

\* most entries (CSV files plus workbook sheets) under data/
MaxEntries == 2
\* most rows of a growth sheet
MaxRows == 1

-----------------------------------------------------------------------------
(* Unicode normalisation of Hangul, as unicodedata.normalize performs it *)

SBase == 44032
LBase == 4352
VBase == 4449
TBase == 4519
LCount == 19
VCount == 21
TCount == 28
NCount == 588
SCount == 11172

IsSyllable(c) == c >= SBase /\ c < SBase + SCount
IsL(c) == c >= LBase /\ c < LBase + LCount
IsV(c) == c >= VBase /\ c < VBase + VCount
IsT(c) == c > TBase /\ c < TBase + TCount
IsLV(c) == IsSyllable(c) /\ (c - SBase) % TCount = 0

\* canonical decomposition of one code point
DecomposeChar(c) ==
    IF IsSyllable(c)
    THEN LET si == c - SBase
             l == LBase + (si \div NCount)
             v == VBase + ((si % NCount) \div TCount)
             t == TBase + (si % TCount)
         IN IF t = TBase THEN <<l, v>> ELSE <<l, v, t>>
    ELSE <<c>>

RECURSIVE Decompose(_)
Decompose(s) ==
    IF s = <<>> THEN <<>> ELSE DecomposeChar(Head(s)) \o Decompose(Tail(s))

\* canonical composition: acc is the composed prefix, s the rest
RECURSIVE ComposeFrom(_, _)
ComposeFrom(acc, s) ==
    IF s = <<>> THEN acc
    ELSE LET c == Head(s)
             n == Len(acc)
             last == IF n = 0 THEN 0 ELSE acc[n]
         IN IF n > 0 /\ IsL(last) /\ IsV(c)
            THEN ComposeFrom([acc EXCEPT ![n] =
                     SBase + ((last - LBase) * VCount + (c - VBase)) * TCount], Tail(s))
            ELSE IF n > 0 /\ IsLV(last) /\ IsT(c)
            THEN ComposeFrom([acc EXCEPT ![n] = last + (c - TBase)], Tail(s))
            ELSE ComposeFrom(Append(acc, c), Tail(s))

NFD(s) == Decompose(s)
NFC(s) == ComposeFrom(<<>>, Decompose(s))


-----------------------------------------------------------------------------
(* Configuration *)

Schools == 1 .. 4

\* keys of SCHOOL_CONFIG in configuration order: 송도고, 하늘고, 아라고, 동산고
SCHOOL_CONFIG ==
    << <<49569, 46020, 44256>>, <<54616, 45720, 44256>>,
       <<50500, 46972, 44256>>, <<46041, 49328, 44256>> >>

Forms == {"NFC", "NFD"}
InForm(f, s) == IF f = "NFC" THEN NFC(s) ELSE NFD(s)

\* the key of school i as the source file stores it
SchoolKey(i) == InForm(cfgForm, SCHOOL_CONFIG[i])

-----------------------------------------------------------------------------
(* Names that may occur under data/ and in the workbook *)

DotCsv == <<46, 99, 115, 118>>
DotCsvUpper == <<46, 67, 83, 86>>
DotTxt == <<46, 116, 120, 116>>
Ascii_x == <<120>>

\* "<school>.csv" with the school name stored in form f
SchoolCsv(i, f) == InForm(f, SCHOOL_CONFIG[i]) \o DotCsv
\* a sheet named after the school, stored in form f
SchoolSheet(i, f) == InForm(f, SCHOOL_CONFIG[i])

\* a name that holds the names of school 1 and school 2
TwoSchools == SCHOOL_CONFIG[1] \o SCHOOL_CONFIG[2]
\* decomposed 하늘고 followed by a trailing consonant: the text 하늘곡
OtherSyllable == NFD(SCHOOL_CONFIG[2]) \o <<4520>>

FileNames ==
    {SchoolCsv(i, f) : i \in Schools, f \in Forms}
    \cup {OtherSyllable \o DotCsv, TwoSchools \o DotCsvUpper, SCHOOL_CONFIG[2] \o DotTxt}

SheetNames ==
    {SchoolSheet(i, "NFD") : i \in Schools}
    \cup {SchoolSheet(1, "NFC"), Ascii_x, TwoSchools}

\* every name the loaders may normalise
Names ==
    FileNames \cup SheetNames \cup {InForm(f, SCHOOL_CONFIG[i]) : i \in Schools, f \in Forms}

\* unicodedata.normalize("NFC", .) on those names
NFCOf == [n \in Names |-> NFC(n)]

normalize_filename_raw(name) == name
normalize_filename(name) == NFCOf[name]

-----------------------------------------------------------------------------
(* String helpers *)

\* Python's  sub in s
In(sub, s) ==
    \E i \in 0 .. (Len(s) - Len(sub)) : SubSeq(s, i + 1, i + Len(sub)) = sub

\* str.lower() on ASCII letters
Lower(s) == [i \in 1 .. Len(s) |-> IF s[i] >= 65 /\ s[i] <= 90 THEN s[i] + 32 ELSE s[i]]

\* Path.suffix: the name from its last dot
Suffix(name) ==
    LET dots == {i \in 2 .. Len(name) : name[i] = 46}
    IN IF dots = {} THEN <<>>
       ELSE LET k == CHOOSE i \in dots : \A j \in dots : j <= i
            IN SubSeq(name, k, Len(name))

EmptyMap == [x \in {} |-> 0]

Put(map, k, v) == [x \in DOMAIN map \cup {k} |-> IF x = k THEN v ELSE map[x]]

-----------------------------------------------------------------------------
(* The loaders *)

\* the keys of SCHOOL_CONFIG are visited in configuration order
SchoolAt_reversed(k) == 5 - k
SchoolAt(k) == k

\* the mapping a loader starts from:  env_data = {}  /  growth_data = {}
InitialMapping_defaults == [s \in Schools |-> [default |-> s]]
InitialMapping == EmptyMap

NewResult ==
    [data |-> InitialMapping, warnings |-> <<>>, errors |-> <<>>,
     assigned |-> {}, exc |-> FALSE]

\* pd.read_csv(file_path): the table of the file
ReadCsv(name) == [file |-> name]
\* pd.read_excel(xlsx_path, sheet_name): the table of the sheet
ReadSheet(sheet) == [sheet |-> sheet]

\* except Exception as e: st.warning(...)   (the loop over schools goes on)
CsvReadFailed_propagates(acc, filename) == [acc EXCEPT !.exc = TRUE]
CsvReadFailed(acc, filename) ==
    [acc EXCEPT !.warnings = Append(@, [file |-> filename])]

\* for school in SCHOOL_CONFIG.keys(): ... of load_env_data, from the k-th key on
RECURSIVE EnvSchoolLoop(_, _, _)
EnvSchoolLoop(acc, name, k) ==
    IF k > Len(SCHOOL_CONFIG) \/ acc.exc THEN acc
    ELSE LET school == SchoolAt(k)
             filename == normalize_filename(name)
             school_normalized == normalize_filename(SchoolKey(school))
         IN IF In(school_normalized, filename)
            THEN IF csvFiles[name]
                 THEN [acc EXCEPT !.data = Put(@, school, ReadCsv(name)),
                                  !.assigned = @ \cup {<<"csv", name, school>>}]
                 ELSE EnvSchoolLoop(CsvReadFailed(acc, filename), name, k + 1)
            ELSE EnvSchoolLoop(acc, name, k + 1)

\* for file_path in data_path.iterdir(): ... over the entries in the order given
RECURSIVE EnvFileLoop(_, _)
EnvFileLoop(acc, order) ==
    IF order = <<>> \/ acc.exc THEN acc
    ELSE LET name == Head(order)
         IN IF Lower(Suffix(name)) = DotCsv
            THEN EnvFileLoop(EnvSchoolLoop(acc, name, 1), Tail(order))
            ELSE EnvFileLoop(acc, Tail(order))

\* load_env_data() when iterdir() yields the entries in this order
LoadEnvFrom(order) ==
    IF ~dirExists
    THEN [NewResult EXCEPT !.errors = <<"data_dir_missing">>]
    ELSE EnvFileLoop(NewResult, order)

\* except Exception as e: st.error(...)  around the whole workbook
XlsxFailed(acc) ==
    [acc EXCEPT !.exc = FALSE, !.errors = Append(@, "xlsx_load_failed")]

\* for school in SCHOOL_CONFIG.keys(): ... of load_growth_data, from the k-th key on
RECURSIVE GrowthSchoolLoop(_, _, _)
GrowthSchoolLoop(acc, sheet, k) ==
    IF k > Len(SCHOOL_CONFIG) THEN acc
    ELSE LET school == SchoolAt(k)
             sheet_normalized == normalize_filename(sheet.name)
             school_normalized == normalize_filename(SchoolKey(school))
         IN IF In(school_normalized, sheet_normalized)
            THEN IF sheet.readable
                 THEN [acc EXCEPT !.data = Put(@, school, ReadSheet(sheet.name)),
                                  !.assigned = @ \cup {<<"sheet", sheet.name, school>>}]
                 ELSE [acc EXCEPT !.exc = TRUE]
            ELSE GrowthSchoolLoop(acc, sheet, k + 1)

\* for sheet_name in excel_file.sheet_names: ...
RECURSIVE SheetLoop(_, _)
SheetLoop(acc, sheets) ==
    IF sheets = <<>> \/ acc.exc THEN acc
    ELSE SheetLoop(GrowthSchoolLoop(acc, Head(sheets), 1), Tail(sheets))

\* load_growth_data() on a workbook wb
LoadGrowthFrom(wb) ==
    IF ~dirExists THEN NewResult
    ELSE IF ~wb.present
    THEN [NewResult EXCEPT !.errors = <<"xlsx_missing">>]
    ELSE IF ~wb.opens THEN XlsxFailed(NewResult)
    ELSE LET r == SheetLoop(NewResult, wb.sheets)
         IN IF r.exc THEN XlsxFailed(r) ELSE r

\* @st.cache_data: the entry a call finds
CacheLookup_miss(cache) == [cache EXCEPT !.filled = FALSE]
CacheLookup(cache) == cache

EmptyCache == [filled |-> FALSE, result |-> NewResult]

\* the orders in which iterdir() may yield a set of entries
Orders(S) ==
    {q \in [1 .. Cardinality(S) -> S] : \A i, j \in DOMAIN q : q[i] = q[j] => i = j}

-----------------------------------------------------------------------------
(* Initial states: any small data directory *)

Sheets(n) ==
    {q \in [1 .. n -> [name : SheetNames, readable : BOOLEAN]] :
        \A i, j \in 1 .. n : q[i].name = q[j].name => i = j}

Workbooks(n) ==
    {[present |-> FALSE, opens |-> FALSE, sheets |-> <<>>],
     [present |-> TRUE, opens |-> FALSE, sheets |-> <<>>]}
    \cup {[present |-> TRUE, opens |-> TRUE, sheets |-> q] :
             q \in UNION {Sheets(m) : m \in 0 .. n}}

Directories ==
    UNION {[S -> BOOLEAN] : S \in {T \in SUBSET FileNames : Cardinality(T) <= MaxEntries}}

InitProgram ==
    /\ pc = "start"
    /\ env_data = EmptyMap
    /\ growth_data = EmptyMap
    /\ warnings = <<>>
    /\ errors = <<>>
    /\ env_cache = EmptyCache
    /\ growth_cache = EmptyCache
    /\ enumOrder = <<>>
    /\ assigned = {}
    /\ raised = FALSE
    /\ prev = [has |-> FALSE, env |-> EmptyMap, growth |-> EmptyMap]
    /\ ec_values = <<>>
    /\ ph_values = <<>>
    /\ temp_values = <<>>
    /\ humidity_values = <<>>
    /\ weight_values = <<>>
    /\ optimal_idx = 0
    /\ summary_df = <<>>

Init ==
    /\ cfgForm \in Forms
    /\ dirExists \in BOOLEAN
    /\ csvFiles \in (IF dirExists THEN Directories ELSE {EmptyMap})
    /\ workbook \in (IF dirExists
                     THEN Workbooks(MaxEntries - Cardinality(DOMAIN csvFiles))
                     ELSE {[present |-> FALSE, opens |-> FALSE, sheets |-> <<>>]})
    /\ InitProgram

-----------------------------------------------------------------------------
(* The script run: main() up to the guard on empty data *)

\* env_data = load_env_data()
LoadEnv ==
    /\ pc = "start"
    /\ LET hit == CacheLookup(env_cache)
       IN \E order \in (IF hit.filled THEN {enumOrder} ELSE Orders(DOMAIN csvFiles)) :
            \E r \in {IF hit.filled THEN hit.result ELSE LoadEnvFrom(order)} :
               /\ env_data' = r.data
               /\ warnings' = r.warnings
               /\ errors' = r.errors
               /\ raised' = r.exc
               /\ enumOrder' = order
               /\ assigned' = assigned \cup r.assigned
               /\ env_cache' = IF r.exc THEN env_cache
                               ELSE [filled |-> TRUE, result |-> r]
               /\ pc' = IF r.exc THEN "crashed" ELSE "env_loaded"
    /\ UNCHANGED <<fsVars, statVars, growth_data, growth_cache, prev>>

\* growth_data = load_growth_data()
LoadGrowth ==
    /\ pc = "env_loaded"
    /\ LET hit == CacheLookup(growth_cache)
       IN \E r \in {IF hit.filled THEN hit.result ELSE LoadGrowthFrom(workbook)} :
          /\ growth_data' = r.data
          /\ warnings' = warnings \o r.warnings
          /\ errors' = errors \o r.errors
          /\ raised' = r.exc
          /\ assigned' = assigned \cup r.assigned
          /\ growth_cache' = IF r.exc THEN growth_cache
                             ELSE [filled |-> TRUE, result |-> r]
          /\ pc' = IF r.exc THEN "crashed" ELSE "loaded"
    /\ UNCHANGED <<fsVars, statVars, env_data, env_cache, enumOrder, prev>>

\* if not env_data or not growth_data: st.error(...); return
MainGuard ==
    /\ pc = "loaded"
    /\ IF env_data = EmptyMap \/ growth_data = EmptyMap
       THEN /\ errors' = Append(errors, "no_data")
            /\ pc' = "stopped"
       ELSE /\ errors' = errors
            /\ pc' = "render"
    /\ UNCHANGED <<fsVars, statVars, env_data, growth_data, warnings, env_cache,
                   growth_cache, enumOrder, assigned, raised, prev>>

\* the script is run again (an interaction with the page), files unchanged
Rerun ==
    /\ pc \in {"stopped", "render", "crashed"}
    /\ prev' = [has |-> pc # "crashed", env |-> env_data, growth |-> growth_data]
    /\ env_data' = EmptyMap
    /\ growth_data' = EmptyMap
    /\ warnings' = <<>>
    /\ errors' = <<>>
    /\ raised' = FALSE
    /\ pc' = "start"
    /\ UNCHANGED <<fsVars, statVars, env_cache, growth_cache, enumOrder, assigned>>

Next == LoadEnv \/ LoadGrowth \/ MainGuard \/ Rerun

Spec == Init /\ [][Next]_vars

-----------------------------------------------------------------------------
(* Numbers: what Series.mean() yields, and Python's comparisons on them *)

NaN == [nan |-> TRUE, n |-> 0, d |-> 1]
Num(n, d) == [nan |-> FALSE, n |-> n, d |-> d]
\* the literal 0 given to stats.get as default
Default0 == Num(0, 1)

\* a > b  and  a == b  on floats: every comparison with NaN is false
Gt(a, b) == ~a.nan /\ ~b.nan /\ a.n * b.d > b.n * a.d
NumEq(a, b) == ~a.nan /\ ~b.nan /\ a.n * b.d = b.n * a.d

RECURSIVE SumSeq(_)
SumSeq(s) == IF s = <<>> THEN 0 ELSE Head(s) + SumSeq(Tail(s))

\* df[col]
Column(df, col) == [i \in 1 .. Len(df) |-> df[i][col]]

\* Series.mean(): NaN on an empty column
Mean(col) == IF Len(col) = 0 THEN NaN ELSE Num(SumSeq(col), Len(col))

\* stats.get(key, default)
Get(stats, key, default) == IF key \in DOMAIN stats THEN stats[key] ELSE default

\* calculate_school_stats: the means main reads (leaf_avg, above_avg, below_avg
\* are computed the same way and read nowhere)
calculate_school_stats(env, growth, school) ==
    (IF school \in DOMAIN env
     THEN [temp_avg |-> Mean(Column(env[school], "temperature")),
           humidity_avg |-> Mean(Column(env[school], "humidity")),
           ph_avg |-> Mean(Column(env[school], "ph")),
           ec_avg |-> Mean(Column(env[school], "ec"))]
     ELSE EmptyMap)
    @@
    (IF school \in DOMAIN growth
     THEN [weight_avg |-> Mean(Column(growth[school], "weight")),
           sample_count |-> Len(growth[school])]
     ELSE EmptyMap)

\* [stats.get(key, 0) for school in schools]
ValuesOf(key) ==
    [i \in 1 .. Len(SCHOOL_CONFIG) |->
        Get(calculate_school_stats(env_data, growth_data, SchoolAt(i)), key, Default0)]

\* max(values): the position of the element max() returns
RECURSIVE MaxFrom(_, _, _)
MaxFrom(values, best, i) ==
    IF i > Len(values) THEN best
    ELSE MaxFrom(values, IF Gt(values[i], values[best]) THEN i ELSE best, i + 1)

PyMax(values) == MaxFrom(values, 1, 2)

\* values.index(x) for the element x at position pos: first element that is x or equals x
ListIndex(values, pos) ==
    CHOOSE i \in 1 .. Len(values) :
        /\ i = pos \/ NumEq(values[i], values[pos])
        /\ \A j \in 1 .. (i - 1) : ~(j = pos \/ NumEq(values[j], values[pos]))

\* weight_values.index(max(weight_values))
OptimalIdx(values) == ListIndex(values, PyMax(values))

-----------------------------------------------------------------------------
(* f"{x:.2f}" and f"{x:.3f}": strings as sequences of character codes *)

RECURSIVE Pow10(_)
Pow10(k) == IF k = 0 THEN 1 ELSE 10 * Pow10(k - 1)

RECURSIVE Digits(_)
Digits(n) == IF n < 10 THEN <<48 + n>> ELSE Append(Digits(n \div 10), 48 + (n % 10))

RECURSIVE ZeroPad(_, _)
ZeroPad(s, width) == IF Len(s) >= width THEN s ELSE ZeroPad(<<48>> \o s, width)

Format(x, places) ==
    IF x.nan THEN <<110, 97, 110>>
    ELSE LET scaled == x.n * Pow10(places)
             q == scaled \div x.d
             r == scaled % x.d
             rounded == IF 2 * r > x.d \/ (2 * r = x.d /\ q % 2 = 1) THEN q + 1 ELSE q
         IN Digits(rounded \div Pow10(places)) \o <<46>>
            \o ZeroPad(Digits(rounded % Pow10(places)), places)

\* a < b on str: by code point, a proper prefix first
StrLt(a, b) ==
    \E k \in 1 .. Len(b) :
        /\ \A j \in 1 .. (k - 1) : j <= Len(a) /\ a[j] = b[j]
        /\ k > Len(a) \/ a[k] < b[k]

\* summary_data: one row per school, in configuration order
SummaryData(ec, ph, weight) ==
    [i \in 1 .. Len(SCHOOL_CONFIG) |->
        [school |-> SchoolAt(i), ec |-> Format(ec[i], 2), ph |-> Format(ph[i], 2),
         weight |-> Format(weight[i], 3)]]

\* key by which sort_values('생중량 (g)') compares two rows: the formatted string
SortsBefore(rowA, rowB, weight) == StrLt(rowB.weight, rowA.weight)

\* the orders of n rows
OrdersOf(n) ==
    {q \in [1 .. n -> 1 .. n] : \A i, j \in 1 .. n : q[i] = q[j] => i = j}

RowOrders == OrdersOf(Len(SCHOOL_CONFIG))

\* sort_values(..., ascending=False).reset_index(drop=True) with 순위 = 1..n:
\* the row orders the sort may produce (rows of equal key in any order)
SortedSummaries(rows, weight) ==
    {[k \in 1 .. Len(rows) |-> rows[p[k]]] :
        p \in {q \in RowOrders :
                 \A i \in 1 .. (Len(rows) - 1) :
                     ~SortsBefore(rows[q[i + 1]], rows[q[i]], weight)}}

-----------------------------------------------------------------------------
(* main() after the loaders: the three tabs *)

\* 탭1: the value lists of the environment charts
Tab1 ==
    /\ pc = "render"
    /\ ec_values' = ValuesOf("ec_avg")
    /\ ph_values' = ValuesOf("ph_avg")
    /\ temp_values' = ValuesOf("temp_avg")
    /\ humidity_values' = ValuesOf("humidity_avg")
    /\ pc' = "tab1"
    /\ UNCHANGED <<fsVars, loadVars, weight_values, optimal_idx, summary_df>>

\* 탭2: pH against weight, and the "최대 생중량 학교" metric
Tab2 ==
    /\ pc = "tab1"
    /\ ph_values' = ValuesOf("ph_avg")
    /\ \E weight \in {ValuesOf("weight_avg")} :
          /\ weight_values' = weight
          /\ optimal_idx' = OptimalIdx(weight)
    /\ pc' = "tab2"
    /\ UNCHANGED <<fsVars, loadVars, ec_values, temp_values, humidity_values, summary_df>>

\* 탭3: EC against weight, the metric again, and the ranked summary table
Tab3 ==
    /\ pc = "tab2"
    /\ \E ec \in {ValuesOf("ec_avg")}, weight \in {ValuesOf("weight_avg")},
          ph \in {ValuesOf("ph_avg")} :
          /\ ec_values' = ec
          /\ weight_values' = weight
          /\ ph_values' = ph
          /\ optimal_idx' = OptimalIdx(weight)
          /\ \E rows \in {SummaryData(ec, ph, weight)} :
                summary_df' \in SortedSummaries(rows, weight)
    /\ pc' = "done"
    /\ UNCHANGED <<fsVars, loadVars, temp_values, humidity_values>>

-----------------------------------------------------------------------------
(* The statistics on their own: any loaded tables, each school's data in   *)
(* a file and a sheet named after it                                       *)

EnvRow == [temperature |-> 21, humidity |-> 55, ph |-> 6, ec |-> 2]
EnvTables == {<<>>, <<EnvRow>>}

Weights == {9, 10}
GrowthTables ==
    UNION {[1 .. n -> [weight : Weights]] : n \in 0 .. MaxRows}

Maps(tables) == UNION {[S -> tables] : S \in SUBSET Schools}

\* the schools of a mapping in configuration order
RECURSIVE KeysFrom(_, _)
KeysFrom(map, i) ==
    IF i > Len(SCHOOL_CONFIG) THEN <<>>
    ELSE (IF i \in DOMAIN map THEN <<i>> ELSE <<>>) \o KeysFrom(map, i + 1)

InitStats ==
    /\ cfgForm = "NFC"
    /\ dirExists = TRUE
    /\ env_data \in Maps(EnvTables)
    /\ growth_data \in Maps(GrowthTables)
    /\ csvFiles = [n \in {SchoolCsv(i, "NFC") : i \in DOMAIN env_data} |-> TRUE]
    /\ LET keys == KeysFrom(growth_data, 1)
       IN workbook = [present |-> TRUE, opens |-> TRUE,
                      sheets |-> [j \in 1 .. Len(keys) |->
                                    [name |-> SchoolSheet(keys[j], "NFC"),
                                     readable |-> TRUE]]]
    /\ LET keys == KeysFrom(env_data, 1)
       IN enumOrder = [j \in 1 .. Len(keys) |-> SchoolCsv(keys[j], "NFC")]
    /\ assigned = {<<"csv", SchoolCsv(i, "NFC"), i>> : i \in DOMAIN env_data}
                  \cup {<<"sheet", SchoolSheet(i, "NFC"), i>> : i \in DOMAIN growth_data}
    /\ env_cache = [filled |-> TRUE, result |-> [NewResult EXCEPT !.data = env_data]]
    /\ growth_cache = [filled |-> TRUE, result |-> [NewResult EXCEPT !.data = growth_data]]
    /\ pc = "loaded"
    /\ warnings = <<>>
    /\ errors = <<>>
    /\ raised = FALSE
    /\ prev = [has |-> FALSE, env |-> EmptyMap, growth |-> EmptyMap]
    /\ ec_values = <<>>
    /\ ph_values = <<>>
    /\ temp_values = <<>>
    /\ humidity_values = <<>>
    /\ weight_values = <<>>
    /\ optimal_idx = 0
    /\ summary_df = <<>>

NextStats == MainGuard \/ Tab1 \/ Tab2 \/ Tab3

SpecStats == InitStats /\ [][NextStats]_vars

-----------------------------------------------------------------------------
(* Vocabulary of the properties *)

\* load_env_data has returned in this run / both loaders have
EnvLoaded == pc \in {"env_loaded", "loaded", "stopped", "render"}
Loaded == pc \in {"loaded", "stopped", "render"}

\* the schools whose normalised name the normalised name of an entry contains
MatchesOf == [n \in Names |-> {i \in Schools : In(NFC(SCHOOL_CONFIG[i]), NFC(n))}]
Matches(i, name) == i \in MatchesOf[name]
MatchesAny(name) == MatchesOf[name] # {}
\* the first school in configuration order that the entry matches
FirstMatchOf ==
    [n \in {m \in Names : MatchesOf[m] # {}} |->
        CHOOSE i \in MatchesOf[n] : \A j \in MatchesOf[n] : i <= j]
FirstMatch(name) == FirstMatchOf[name]

CsvNames == {n \in FileNames : Lower(Suffix(n)) = DotCsv}
IsCsvName(name) == name \in CsvNames
\* the names a file or sheet of school i may bear, by normalisation form
CsvNameOf == [i \in Schools |-> [f \in Forms |-> SchoolCsv(i, f)]]
SheetNameOf == [i \in Schools |-> [f \in Forms |-> SchoolSheet(i, f)]]
\* the CSV files under data/ that match a school
MatchingCsv == {n \in DOMAIN csvFiles : IsCsvName(n) /\ MatchesAny(n)}
\* the readable ones whose first matching school is s
ReadableCsvOf(s) == {n \in MatchingCsv : csvFiles[n] /\ FirstMatch(n) = s}

SheetIdx == 1 .. Len(workbook.sheets)
MatchingSheets == {j \in SheetIdx : MatchesAny(workbook.sheets[j].name)}
\* sheet j was read: the workbook opened and no read failed up to sheet j
SheetRead(j) ==
    /\ workbook.opens
    /\ \A k \in MatchingSheets : k <= j => workbook.sheets[k].readable

CsvSchools(n) == {s \in Schools : <<"csv", n, s>> \in assigned}
SheetSchools(n) == {s \in Schools : <<"sheet", n, s>> \in assigned}

\* position of an entry in the enumeration order of the read
PosOf(n) == CHOOSE k \in DOMAIN enumOrder : enumOrder[k] = n

-----------------------------------------------------------------------------
(* C3: of several readable CSV files (or sheets) of one school, the first  *)
(* in enumeration (sheet) order is the one whose table the school gets; a  *)
(* later one never replaces it.                                            *)
C3_FirstMatchWins ==
    /\ (EnvLoaded /\ dirExists) =>
          \A s \in DOMAIN env_data :
             \E n \in ReadableCsvOf(s) :
                /\ env_data[s] = ReadCsv(n)
                /\ \A m \in ReadableCsvOf(s) : PosOf(n) <= PosOf(m)
    /\ (Loaded /\ dirExists) =>
          \A s \in DOMAIN growth_data :
             \E j \in MatchingSheets :
                /\ SheetRead(j) /\ FirstMatch(workbook.sheets[j].name) = s
                /\ growth_data[s] = ReadSheet(workbook.sheets[j].name)
                /\ \A k \in MatchingSheets :
                      (SheetRead(k) /\ FirstMatch(workbook.sheets[k].name) = s) => j <= k

-----------------------------------------------------------------------------
(* C4: a readable CSV file or sheet named after a school is matched to     *)
(* that school whatever the normalisation form of its name (NFC or NFD)    *)
(* and whatever the form of the configured name.                           *)
C4_MatchAcrossForms ==
    /\ EnvLoaded =>
          \A i \in Schools, f \in Forms :
             (CsvNameOf[i][f] \in DOMAIN csvFiles /\ csvFiles[CsvNameOf[i][f]]) =>
                (i \in DOMAIN env_data /\ CsvSchools(CsvNameOf[i][f]) = {i})
    /\ Loaded =>
          \A j \in SheetIdx, i \in Schools, f \in Forms :
             (workbook.sheets[j].name = SheetNameOf[i][f] /\ SheetRead(j)) =>
                (i \in DOMAIN growth_data /\ SheetSchools(SheetNameOf[i][f]) = {i})

\* a decomposed file name and a decomposed sheet name matched against composed keys
C4_Witness ==
    /\ Loaded /\ cfgForm = "NFC"
    /\ \E i \in Schools :
          /\ SchoolCsv(i, "NFD") \in DOMAIN csvFiles
          /\ i \in DOMAIN env_data
          /\ env_data[i] = ReadCsv(SchoolCsv(i, "NFD"))
    /\ \E j \in SheetIdx, i \in Schools :
          /\ workbook.sheets[j].name = SchoolSheet(i, "NFD")
          /\ i \in DOMAIN growth_data

-----------------------------------------------------------------------------
(* C5: when reading a school's CSV file fails, load_env_data still returns *)
(* normally; a school is in the returned mapping exactly when one of its   *)
(* files is readable (so the other schools are present and the failing one *)
(* is absent), and a warning is recorded for every failing file.           *)
C5_FailureIsPerSchool ==
    (\E n \in MatchingCsv : ~csvFiles[n]) =>
        /\ pc # "crashed"
        /\ EnvLoaded =>
              /\ ~raised
              /\ \A s \in Schools : s \in DOMAIN env_data <=> ReadableCsvOf(s) # {}
              /\ \A n \in MatchingCsv :
                    ~csvFiles[n] => \E k \in DOMAIN warnings : warnings[k] = [file |-> NFCOf[n]]

\* one school's file fails, another school's file is read
C5_Witness ==
    /\ EnvLoaded
    /\ \E n, m \in MatchingCsv :
          /\ ~csvFiles[n] /\ csvFiles[m]
          /\ FirstMatch(n) \notin DOMAIN env_data
          /\ FirstMatch(m) \in DOMAIN env_data
          /\ warnings # <<>>

-----------------------------------------------------------------------------
(* C6: with the data directory present and no entry matching a school, the *)
(* loaders return normally and return the empty mapping.                   *)
C6_NoMatchIsEmpty ==
    /\ (dirExists /\ MatchingCsv = {}) =>
          /\ pc # "crashed"
          /\ EnvLoaded => env_data = EmptyMap
    /\ (dirExists /\ MatchingSheets = {}) =>
          /\ pc # "crashed"
          /\ Loaded => growth_data = EmptyMap

\* a CSV file and a sheet are there and neither matches a school
C6_Witness ==
    /\ Loaded /\ dirExists
    /\ \E n \in DOMAIN csvFiles : IsCsvName(n)
    /\ MatchingCsv = {}
    /\ workbook.opens /\ workbook.sheets # <<>> /\ MatchingSheets = {}
    /\ env_data = EmptyMap /\ growth_data = EmptyMap

-----------------------------------------------------------------------------
(* C7: what load_growth_data returns when the workbook is missing or does  *)
(* not open differs from what it returns for every workbook that opens and *)
(* has no sheet matching a school.                                         *)
NoMatchWorkbooks ==
    {w \in Workbooks(MaxEntries) :
        w.opens /\ \A j \in 1 .. Len(w.sheets) : ~MatchesAny(w.sheets[j].name)}

C7_TotalFailureDistinct ==
    (Loaded /\ dirExists /\ ~workbook.opens) =>
        \A w \in NoMatchWorkbooks : growth_data # LoadGrowthFrom(w).data

-----------------------------------------------------------------------------
(* C8: a second call of a loader, with the directory unchanged, returns a  *)
(* mapping equal to the one the previous call returned.                    *)
C8_SecondCallEqual ==
    /\ (prev.has /\ EnvLoaded) => env_data = prev.env
    /\ (prev.has /\ Loaded) => growth_data = prev.growth

\* second run over a directory with two readable files of one school
C8_Witness ==
    /\ prev.has /\ Loaded
    /\ \E s \in Schools : Cardinality(ReadableCsvOf(s)) >= 2
    /\ env_data # EmptyMap

-----------------------------------------------------------------------------
-----------------------------------------------------------------------------
(* Vocabulary of the properties on the statistics *)

IsZero(v) == ~v.nan /\ v.n = 0
Ge(a, b) == Gt(a, b) \/ NumEq(a, b)
NoEnvRecords(i) == i \notin DOMAIN env_data \/ env_data[i] = <<>>
NoGrowthRecords(i) == i \notin DOMAIN growth_data \/ growth_data[i] = <<>>
\* the schools whose entry of weight_values is a number
Weighed == {i \in DOMAIN weight_values : ~weight_values[i].nan}

-----------------------------------------------------------------------------
(* C1: the "최대 생중량 학교" is the school of maximum mean weight, the    *)
(* earliest in configuration order among those that share the maximum      *)
(* (stated for runs in which every school has a sheet, over the schools    *)
(* whose mean weight is a number).                                         *)
C1_BestIsFirstMaximum ==
    (pc \in {"tab2", "done"} /\ DOMAIN growth_data = Schools /\ Weighed # {}) =>
        /\ optimal_idx \in Weighed
        /\ \A j \in Weighed : Ge(weight_values[optimal_idx], weight_values[j])
        /\ \A j \in Weighed :
              j < optimal_idx => ~NumEq(weight_values[j], weight_values[optimal_idx])

-----------------------------------------------------------------------------
(* C2: for a school without loaded records, no mean in the value lists of  *)
(* main is the number 0 or NaN.                                            *)
C2_NoRecordsNeverZeroOrNaN ==
    /\ pc \in {"tab1", "tab2", "done"} =>
          \A i \in Schools :
             NoEnvRecords(i) =>
                \A v \in {ec_values[i], ph_values[i], temp_values[i], humidity_values[i]} :
                   ~v.nan /\ ~IsZero(v)
    /\ pc \in {"tab2", "done"} =>
          \A i \in Schools :
             NoGrowthRecords(i) => (~weight_values[i].nan /\ ~IsZero(weight_values[i]))

-----------------------------------------------------------------------------
(* C10: in the ranked summary table the ranks follow numerically           *)
(* non-increasing mean weight, and the school of rank 1 has the maximum    *)
(* mean weight, that of the "최대 생중량 학교" (stated for runs in which   *)
(* every school has a sheet and every mean weight is a number).            *)
C10_RanksFollowWeight ==
    (pc = "done" /\ DOMAIN growth_data = Schools /\ Weighed = Schools) =>
        /\ \A k \in 1 .. (Len(summary_df) - 1) :
              Ge(weight_values[summary_df[k].school], weight_values[summary_df[k + 1].school])
        /\ NumEq(weight_values[summary_df[1].school], weight_values[optimal_idx])

====
